---- MODULE Spec2Model ----
(***************************************************************************)
(* Model of the xv6 buffer cache (kernel/bio.c) and of the per-CPU         *)
(* physical page allocator (kernel/kalloc.c).                              *)
(*                                                                         *)
(* Buffer cache: kernel threads call bread, then bpin / bunpin on the      *)
(* buffer they hold, then brelse.  A step is one access to shared data     *)
(* that another thread may make at the same time (a field of a descriptor  *)
(* read or written), together with the spin-lock acquires that precede it  *)
(* and the releases that follow it: an acquire commutes to the right and a *)
(* release to the left of the other threads' steps, so every interleaving  *)
(* of the statements of the source is a behaviour of Spec.  A thread whose *)
(* next step starts with an acquire of a held lock is waiting for it.      *)
(*                                                                         *)
(* Allocator: every CPU runs kalloc and kfree with interrupts off, one     *)
(* call at a time; an acquire is one step with the list operation that     *)
(* follows it, a memset of a page that no other CPU can reach is one step  *)
(* with the lock operation next to it.                                     *)
(* Its behaviours are those of SpecKalloc.                                 *)
(***************************************************************************)
EXTENDS Integers, Sequences, FiniteSets, TLC

\* ------------------------------------------------------------------ bounds
NThreads == 2
NDev == 2
NBlock == 2
MaxCalls == 4
MaxTick == 1
MaxPin == 1
NCPU == 3
NPages == 2

\* --------------------------------------------------------------- constants
\* the largest value of an unsigned word (__UINT32_MAX__); the model's words
\* are 31 bits wide, the widest the model checker's integers represent
UINT32_MAX == 2147483647
HashMod == 13
NULL == -1
NOBODY == 0
\* the fill bytes of kfree and of kalloc, and the null page address
FreeFill == 1
AllocFill == 5
NoPage == 0

VARIABLES
  NBUF,       \* pool size (param.h), fixed at build time
  NBUCKET,    \* bucket count (param.h), fixed at build time
  buf,        \* bcache.buf[]: the descriptors
  head,       \* bucket[i].head.next
  lk,         \* bucket[i].lock: holder or NOBODY
  bcachelock, \* bcache.lock: holder or NOBODY
  slk,        \* buf[b].lock, the sleep lock: holder or NOBODY
  ticks,      \* the tick counter, as last read
  pinned,     \* per key: bpin calls not yet matched by bunpin
  ncalls,     \* bread calls the threads may still make
  npins,      \* bpin calls the threads may still make
  th,         \* per thread: program counter and locals
  recent      \* the thread that alone has made steps since it entered bread, the
              \* key it asked for and the descriptor it has released since

biovars == <<NBUF, NBUCKET, buf, head, lk, bcachelock, slk, ticks, pinned, ncalls, npins, th,
             recent>>

VARIABLES
  freelist,   \* mem[i].freelist: the first free page or NoPage
  pg,         \* the pages: the first word (struct run's next) and the other bytes
  mlock,      \* mem[i].lock: the CPU that holds it or NULL
  cpu,        \* per CPU: program counter and locals of its kalloc or kfree call
  owned,      \* per page: kalloc returns not yet matched by a kfree
  avail,      \* per CPU: some free list was non-empty at every instant of its
              \* kalloc call so far (FALSE outside kalloc)
  pushed,     \* per free list: its pages in the order kfree pushed them
  log         \* while one CPU only has run: the calls that have returned to it,
              \* r for a kalloc that returned r, -pa for kfree(pa)

kvars == <<freelist, pg, mlock, cpu, owned, avail, pushed, log>>

Threads == DOMAIN th
Devs == 0..(NDev - 1)
\* the block numbers the callers ask for
Blocks == 0..(NBlock - 1)
Bufs == 0..(NBUF - 1)
Buckets == 0..(NBUCKET - 1)
TickVals == (0..MaxTick) \cup {UINT32_MAX}

Key(d, n) == <<d, n>>

\* the block device: nothing writes it, and every block has a content of its own
DiskContent(k) == k

\* int id = blockno % NBUCKET
Hash(blockno) == blockno % NBUCKET

\* int findid = ans->blockno % 13
FindId(blockno) == blockno % HashMod

\* the chain of a bucket, walked through next from head.next
RECURSIVE ChainFrom(_, _)
ChainFrom(p, fuel) ==
  IF p = NULL \/ fuel = 0 THEN <<>>
  ELSE <<p>> \o ChainFrom(buf[p].next, fuel - 1)

Chain(i) == ChainFrom(head[i], NBUF + 1)

InChain(b, i) == \E k \in 1..Len(Chain(i)) : Chain(i)[k] = b

\* a lookup that finds nothing
LookupNot(c, dev, blockno) == NULL

\* for(b = bucket[id].head.next; b != 0; b = b->next)
\*   if(b->dev == dev && b->blockno == blockno)
RECURSIVE LookupIn(_, _, _)
LookupIn(c, dev, blockno) ==
  IF c = <<>> THEN NULL
  ELSE IF buf[Head(c)].dev = dev /\ buf[Head(c)].blockno = blockno THEN Head(c)
  ELSE LookupIn(Tail(c), dev, blockno)

\* an iteration that prefers the later of two descriptors of equal time_stamp
ScanStepLater(acc, b) ==
  IF buf[b].refcnt = 0 /\ buf[b].time_stamp <= acc.nowmin /\ buf[b].time_stamp < UINT32_MAX
  THEN [ans |-> b, nowmin |-> buf[b].time_stamp]
  ELSE acc

\* one iteration of either eviction scan:
\*   if(b->refcnt == 0 && b->time_stamp < nowmin){ ans = b; nowmin = b->time_stamp; }
ScanStep(acc, b) ==
  IF buf[b].refcnt = 0 /\ buf[b].time_stamp < acc.nowmin
  THEN [ans |-> b, nowmin |-> buf[b].time_stamp]
  ELSE acc

\* the scan of the requesting bucket's chain
RECURSIVE ScanChain(_, _)
ScanChain(c, acc) ==
  IF c = <<>> THEN acc ELSE ScanChain(Tail(c), ScanStep(acc, Head(c)))

\* binit: bucket i gets the next NBUF / NBUCKET descriptors, each pushed at
\* the head of its chain with blockno = i; everything else is zero (BSS)
PerBucket == NBUF \div NBUCKET

InitBuf(b) ==
  [dev |-> 0,
   blockno |-> IF b < NBUCKET * PerBucket THEN b \div PerBucket ELSE 0,
   valid |-> 0,
   refcnt |-> 0,
   time_stamp |-> 0,
   next |-> IF b < NBUCKET * PerBucket /\ b % PerBucket # 0 THEN b - 1 ELSE NULL,
   data |-> <<>>]

InitHead(i) == IF PerBucket = 0 THEN NULL ELSE (i + 1) * PerBucket - 1

InitThread ==
  [pc |-> "idle", dev |-> 0, blockno |-> 0, id |-> 0, b |-> NULL,
   ans |-> NULL, nowmin |-> 0, findid |-> 0, held |-> NULL]


\* no thread has run alone since it entered bread
NoRecent == [t |-> NOBODY, b |-> NULL, dev |-> 0, blockno |-> 0]

\* a step of thread t: a thread that has run alone up to here is t or nobody
Alone(t) == IF recent.t = t THEN recent ELSE NoRecent

\* thread t enters bread(d, n): it runs alone from here if no other thread is
\* inside an operation, and it is remembered to have run alone through its last
\* bread and brelse if they were for the same key
Entered(t, d, n) ==
  IF recent.t = t /\ recent.b # NULL /\ recent.dev = d /\ recent.blockno = n
  THEN recent
  ELSE IF \A u \in Threads \ {t} : th[u].pc \in {"idle", "holding"}
       THEN [t |-> t, b |-> NULL, dev |-> d, blockno |-> n]
       ELSE NoRecent

\* the keys the callers ask for
Keys == DOMAIN pinned
DevNos == {k[1] : k \in Keys}
BlockNos == {k[2] : k \in Keys}

\* binit
Binit ==
  /\ buf = [b \in Bufs |-> InitBuf(b)]
  /\ head = [i \in Buckets |-> InitHead(i)]
  /\ lk = [i \in Buckets |-> NOBODY]
  /\ bcachelock = NOBODY
  /\ slk = [b \in Bufs |-> NOBODY]
  /\ recent = NoRecent

\* binit, for a pool of three buckets of one descriptor each
BioInit ==
  /\ NBUCKET = 3
  /\ NBUF = 3
  /\ Binit

\* ++ and -- on an unsigned word wrap around
Inc32(n) == IF n = UINT32_MAX THEN 0 ELSE n + 1
Dec32(n) == IF n = 0 THEN UINT32_MAX ELSE n - 1

\* holdingsleep(&b->lock): the sleep lock is held by the calling thread
holdingsleep(b, t) == slk[b] = t

At(t, label) == th[t].pc = label
Goto(t, r) == th' = [th EXCEPT ![t] = r]
SetBuf(b, r) == buf' = [buf EXCEPT ![b] = r]

\* ------------------------------------------------------------------- bread
\* bread(dev, blockno) enters bget: id = blockno % NBUCKET;
\* acquire(&bucket[id].lock); the hit scan finds the key: b->refcnt++;
\* release(&bucket[id].lock)
BgetHit(t) ==
  /\ At(t, "idle")
  /\ ncalls > 0
  /\ ncalls' = ncalls - 1
  /\ \E d \in DevNos, n \in BlockNos :
       LET hit == LookupIn(Chain(Hash(n)), d, n) IN
       /\ Key(d, n) \in Keys
       /\ lk[Hash(n)] = NOBODY
       /\ hit # NULL
       /\ SetBuf(hit, [buf[hit] EXCEPT !.refcnt = Inc32(@)])
       /\ Goto(t, [th[t] EXCEPT !.pc = "acquiresleep", !.dev = d, !.blockno = n,
                                !.id = Hash(n), !.b = hit])
       /\ recent' = Entered(t, d, n)
  /\ UNCHANGED <<kvars, NBUF, NBUCKET, head, lk, bcachelock, slk, ticks, pinned, npins>>

\* bget misses: the bucket's chain is scanned for its idle descriptor of least
\* time_stamp; the bucket lock stays held
BgetMiss(t) ==
  /\ At(t, "idle")
  /\ ncalls > 0
  /\ ncalls' = ncalls - 1
  /\ \E d \in DevNos, n \in BlockNos :
       LET s == ScanChain(Chain(Hash(n)), [ans |-> NULL, nowmin |-> UINT32_MAX]) IN
       /\ Key(d, n) \in Keys
       /\ lk[Hash(n)] = NOBODY
       /\ LookupIn(Chain(Hash(n)), d, n) = NULL
       /\ lk' = [lk EXCEPT ![Hash(n)] = t]
       /\ Goto(t, [th[t] EXCEPT !.dev = d, !.blockno = n, !.id = Hash(n),
                                !.ans = s.ans, !.nowmin = s.nowmin,
                                !.pc = IF s.ans # NULL THEN "recycle_dev"
                                       ELSE "acquire_bcache"])
       /\ recent' = Entered(t, d, n)
  /\ UNCHANGED <<kvars, NBUF, NBUCKET, buf, head, bcachelock, slk, ticks, pinned, npins>>

\* ans->dev = dev
RecycleDev(t) ==
  /\ At(t, "recycle_dev")
  /\ SetBuf(th[t].ans, [buf[th[t].ans] EXCEPT !.dev = th[t].dev])
  /\ Goto(t, [th[t] EXCEPT !.pc = "recycle_blockno"])
  /\ recent' = Alone(t)
  /\ UNCHANGED <<kvars, NBUF, NBUCKET, head, lk, bcachelock, slk, ticks, pinned, ncalls, npins>>

\* ans->blockno = blockno
RecycleBlockno(t) ==
  /\ At(t, "recycle_blockno")
  /\ SetBuf(th[t].ans, [buf[th[t].ans] EXCEPT !.blockno = th[t].blockno])
  /\ Goto(t, [th[t] EXCEPT !.pc = "recycle_valid"])
  /\ recent' = Alone(t)
  /\ UNCHANGED <<kvars, NBUF, NBUCKET, head, lk, bcachelock, slk, ticks, pinned, ncalls, npins>>

\* ans->valid = 0
RecycleValid(t) ==
  /\ At(t, "recycle_valid")
  /\ SetBuf(th[t].ans, [buf[th[t].ans] EXCEPT !.valid = 0])
  /\ Goto(t, [th[t] EXCEPT !.pc = "recycle_refcnt"])
  /\ recent' = Alone(t)
  /\ UNCHANGED <<kvars, NBUF, NBUCKET, head, lk, bcachelock, slk, ticks, pinned, ncalls, npins>>

\* ans->refcnt = 1; release(&bucket[id].lock)
RecycleRefcnt(t) ==
  /\ At(t, "recycle_refcnt")
  /\ SetBuf(th[t].ans, [buf[th[t].ans] EXCEPT !.refcnt = 1])
  /\ lk' = [lk EXCEPT ![th[t].id] = NOBODY]
  /\ Goto(t, [th[t] EXCEPT !.pc = "acquiresleep", !.b = th[t].ans])
  /\ recent' = Alone(t)
  /\ UNCHANGED <<kvars, NBUF, NBUCKET, head, bcachelock, slk, ticks, pinned, ncalls, npins>>

\* one iteration of for(b = bcache.buf; b < bcache.buf+NBUF; b++), the first
\* one after acquire(&bcache.lock): the descriptor is read without the lock
\* of the bucket it is on.  After the last one: if(ans) ... else panic
PoolScan(t) ==
  LET me == th[t]
      b == IF At(t, "acquire_bcache") THEN 0 ELSE me.b
      s == ScanStep([ans |-> me.ans, nowmin |-> me.nowmin], b)
  IN /\ \/ At(t, "acquire_bcache") /\ bcachelock = NOBODY
        \/ At(t, "pool_scan")
     /\ bcachelock' = t
     /\ Goto(t, [me EXCEPT !.ans = s.ans, !.nowmin = s.nowmin,
                           !.b = IF b + 1 < NBUF THEN b + 1 ELSE NULL,
                           !.pc = IF b + 1 < NBUF THEN "pool_scan"
                                  ELSE IF s.ans # NULL THEN "find_id"
                                  ELSE "panic"])
     /\ recent' = Alone(t)
     /\ UNCHANGED <<kvars, NBUF, NBUCKET, buf, head, lk, slk, ticks, pinned, ncalls, npins>>

\* int findid = ans->blockno % 13
FindIdStep(t) ==
  /\ At(t, "find_id")
  /\ Goto(t, [th[t] EXCEPT !.pc = "acquire_donor",
                           !.findid = FindId(buf[th[t].ans].blockno)])
  /\ recent' = Alone(t)
  /\ UNCHANGED <<kvars, NBUF, NBUCKET, buf, head, lk, bcachelock, slk, ticks, pinned, ncalls, npins>>

\* the descriptor before b on the chain c (NULL: the bucket's head)
RECURSIVE PreOf(_, _, _)
PreOf(c, b, pre) ==
  IF c = <<>> THEN NULL
  ELSE IF Head(c) = b THEN pre ELSE PreOf(Tail(c), b, Head(c))

\* acquire(&bucket[findid].lock); the walk while(now != ans) finds ans;
\* pre->next = now->next; ans->next = bucket[id].head.next;
\* bucket[id].head.next = ans; release(&bucket[findid].lock);
\* release(&bcache.lock)
DonorMove(t) ==
  LET me == th[t]
      a == me.ans
      pre == PreOf(Chain(me.findid), a, NULL)
      cut == IF pre = NULL THEN buf
             ELSE [buf EXCEPT ![pre] = [buf[pre] EXCEPT !.next = buf[a].next]]
      hcut == IF pre = NULL THEN [head EXCEPT ![me.findid] = buf[a].next] ELSE head
  IN /\ At(t, "acquire_donor")
     /\ me.findid \in Buckets
     /\ lk[me.findid] = NOBODY
     /\ InChain(a, me.findid)
     /\ buf' = [cut EXCEPT ![a] = [cut[a] EXCEPT !.next = hcut[me.id]]]
     /\ head' = [hcut EXCEPT ![me.id] = a]
     /\ bcachelock' = NOBODY
     /\ Goto(t, [me EXCEPT !.pc = "steal_dev"])
     /\ recent' = Alone(t)
     /\ UNCHANGED <<kvars, NBUF, NBUCKET, lk, slk, ticks, pinned, ncalls, npins>>

\* acquire(&bucket[findid].lock); ans is not on that chain: the walk runs off
\* its end and reads now->next through a null pointer; the kernel traps and
\* the thread stops, holding its three locks.  With findid no index of
\* bucket[], the lock and the chain are whatever lies behind the array: the
\* acquire spins, or the walk leaves mapped memory, and the thread stops too
DonorFault(t) ==
  /\ At(t, "acquire_donor")
  /\ IF th[t].findid \in Buckets
     THEN /\ lk[th[t].findid] = NOBODY
          /\ ~InChain(th[t].ans, th[t].findid)
          /\ lk' = [lk EXCEPT ![th[t].findid] = t]
     ELSE lk' = lk
  /\ Goto(t, [th[t] EXCEPT !.pc = "fault"])
  /\ recent' = Alone(t)
  /\ UNCHANGED <<kvars, NBUF, NBUCKET, buf, head, bcachelock, slk, ticks, pinned, ncalls, npins>>

\* ans->dev = dev, after both releases
StealDev(t) ==
  /\ At(t, "steal_dev")
  /\ SetBuf(th[t].ans, [buf[th[t].ans] EXCEPT !.dev = th[t].dev])
  /\ Goto(t, [th[t] EXCEPT !.pc = "steal_blockno"])
  /\ recent' = Alone(t)
  /\ UNCHANGED <<kvars, NBUF, NBUCKET, head, lk, bcachelock, slk, ticks, pinned, ncalls, npins>>

\* ans->blockno = blockno
StealBlockno(t) ==
  /\ At(t, "steal_blockno")
  /\ SetBuf(th[t].ans, [buf[th[t].ans] EXCEPT !.blockno = th[t].blockno])
  /\ Goto(t, [th[t] EXCEPT !.pc = "steal_valid"])
  /\ recent' = Alone(t)
  /\ UNCHANGED <<kvars, NBUF, NBUCKET, head, lk, bcachelock, slk, ticks, pinned, ncalls, npins>>

\* ans->valid = 0
StealValid(t) ==
  /\ At(t, "steal_valid")
  /\ SetBuf(th[t].ans, [buf[th[t].ans] EXCEPT !.valid = 0])
  /\ Goto(t, [th[t] EXCEPT !.pc = "steal_refcnt"])
  /\ recent' = Alone(t)
  /\ UNCHANGED <<kvars, NBUF, NBUCKET, head, lk, bcachelock, slk, ticks, pinned, ncalls, npins>>

\* ans->refcnt = 1; release(&bucket[id].lock)
StealRefcnt(t) ==
  /\ At(t, "steal_refcnt")
  /\ SetBuf(th[t].ans, [buf[th[t].ans] EXCEPT !.refcnt = 1])
  /\ lk' = [lk EXCEPT ![th[t].id] = NOBODY]
  /\ Goto(t, [th[t] EXCEPT !.pc = "acquiresleep", !.b = th[t].ans])
  /\ recent' = Alone(t)
  /\ UNCHANGED <<kvars, NBUF, NBUCKET, head, bcachelock, slk, ticks, pinned, ncalls, npins>>

\* acquiresleep(&b->lock) blocks while another thread holds the lock; bget
\* returns b; bread: if(!b->valid) ... return b
AcquireSleep(t) ==
  LET b == th[t].b IN
  /\ At(t, "acquiresleep")
  /\ slk[b] = NOBODY
  /\ slk' = [slk EXCEPT ![b] = t]
  /\ Goto(t, [th[t] EXCEPT !.ans = NULL, !.nowmin = 0, !.findid = 0,
                           !.held = b, !.b = NULL,
                           !.pc = IF buf[b].valid = 0 THEN "disk_read"
                                  ELSE "holding"])
  /\ recent' = Alone(t)
  /\ UNCHANGED <<kvars, NBUF, NBUCKET, buf, head, lk, bcachelock, ticks, pinned, ncalls, npins>>

\* virtio_disk_rw(b, 0): the block (b->dev, b->blockno) is read into b->data
DiskRead(t) ==
  LET b == th[t].held IN
  /\ At(t, "disk_read")
  /\ SetBuf(b, [buf[b] EXCEPT !.data = DiskContent(Key(buf[b].dev, buf[b].blockno))])
  /\ Goto(t, [th[t] EXCEPT !.pc = "set_valid"])
  /\ recent' = Alone(t)
  /\ UNCHANGED <<kvars, NBUF, NBUCKET, head, lk, bcachelock, slk, ticks, pinned, ncalls, npins>>

\* b->valid = 1; return b
SetValid(t) ==
  /\ At(t, "set_valid")
  /\ SetBuf(th[t].held, [buf[th[t].held] EXCEPT !.valid = 1])
  /\ Goto(t, [th[t] EXCEPT !.pc = "holding"])
  /\ recent' = Alone(t)
  /\ UNCHANGED <<kvars, NBUF, NBUCKET, head, lk, bcachelock, slk, ticks, pinned, ncalls, npins>>

\* -------------------------------------------------------------------- bpin
\* bpin(b) by the holder: int id = b->blockno % NBUCKET
Bpin(t) ==
  LET k == Key(th[t].dev, th[t].blockno) IN
  /\ At(t, "holding")
  /\ npins > 0
  /\ npins' = npins - 1
  /\ pinned' = [pinned EXCEPT ![k] = @ + 1]
  /\ Goto(t, [th[t] EXCEPT !.pc = "bpin_acquire",
                           !.id = Hash(buf[th[t].held].blockno)])
  /\ recent' = Alone(t)
  /\ UNCHANGED <<kvars, NBUF, NBUCKET, buf, head, lk, bcachelock, slk, ticks, ncalls>>

\* acquire(&bucket[id].lock); b->refcnt++; release(&bucket[id].lock)
BpinInc(t) ==
  /\ At(t, "bpin_acquire")
  /\ lk[th[t].id] = NOBODY
  /\ SetBuf(th[t].held, [buf[th[t].held] EXCEPT !.refcnt = Inc32(@)])
  /\ Goto(t, [th[t] EXCEPT !.pc = "holding"])
  /\ recent' = Alone(t)
  /\ UNCHANGED <<kvars, NBUF, NBUCKET, head, lk, bcachelock, slk, ticks, pinned, ncalls, npins>>

\* ------------------------------------------------------------------ bunpin
\* bunpin(b) by the holder, for a pin taken earlier: int id = b->blockno % NBUCKET
Bunpin(t) ==
  LET k == Key(th[t].dev, th[t].blockno) IN
  /\ At(t, "holding")
  /\ pinned[k] > 0
  /\ pinned' = [pinned EXCEPT ![k] = @ - 1]
  /\ Goto(t, [th[t] EXCEPT !.pc = "bunpin_acquire",
                           !.id = Hash(buf[th[t].held].blockno)])
  /\ recent' = Alone(t)
  /\ UNCHANGED <<kvars, NBUF, NBUCKET, buf, head, lk, bcachelock, slk, ticks, ncalls, npins>>

\* acquire(&bucket[id].lock); b->refcnt--; release(&bucket[id].lock)
BunpinDec(t) ==
  /\ At(t, "bunpin_acquire")
  /\ lk[th[t].id] = NOBODY
  /\ SetBuf(th[t].held, [buf[th[t].held] EXCEPT !.refcnt = Dec32(@)])
  /\ Goto(t, [th[t] EXCEPT !.pc = "holding"])
  /\ recent' = Alone(t)
  /\ UNCHANGED <<kvars, NBUF, NBUCKET, head, lk, bcachelock, slk, ticks, pinned, ncalls, npins>>

\* bunpin(b) by a thread that does not hold b's sleep lock, which bunpin does
\* not test: b is the descriptor that a bpin call for the key has pinned, that
\* call having returned; int id = b->blockno % NBUCKET
Unpin(t) ==
  /\ At(t, "idle")
  /\ \E k \in Keys, b \in Bufs :
       /\ pinned[k] > Cardinality({u \in Threads : /\ th[u].pc = "bpin_acquire"
                                                   /\ Key(th[u].dev, th[u].blockno) = k})
       /\ Key(buf[b].dev, buf[b].blockno) = k
       /\ buf[b].refcnt # 0
       /\ pinned' = [pinned EXCEPT ![k] = @ - 1]
       /\ Goto(t, [th[t] EXCEPT !.pc = "unpin_acquire", !.b = b,
                                !.dev = k[1], !.blockno = k[2],
                                !.id = Hash(buf[b].blockno)])
  /\ recent' = Alone(t)
  /\ UNCHANGED <<kvars, NBUF, NBUCKET, buf, head, lk, bcachelock, slk, ticks, ncalls, npins>>

\* acquire(&bucket[id].lock); b->refcnt--; release(&bucket[id].lock); return
UnpinDec(t) ==
  /\ At(t, "unpin_acquire")
  /\ lk[th[t].id] = NOBODY
  /\ SetBuf(th[t].b, [buf[th[t].b] EXCEPT !.refcnt = Dec32(@)])
  /\ Goto(t, InitThread)
  /\ recent' = Alone(t)
  /\ UNCHANGED <<kvars, NBUF, NBUCKET, head, lk, bcachelock, slk, ticks, pinned, ncalls, npins>>

\* ------------------------------------------------------------------ brelse
\* brelse(b) by the holder: holdingsleep passes; releasesleep(&b->lock)
Brelse(t) ==
  /\ At(t, "holding")
  /\ holdingsleep(th[t].held, t)
  /\ slk' = [slk EXCEPT ![th[t].held] = NOBODY]
  /\ Goto(t, [th[t] EXCEPT !.pc = "brelse_id"])
  /\ recent' = Alone(t)
  /\ UNCHANGED <<kvars, NBUF, NBUCKET, buf, head, lk, bcachelock, ticks, pinned, ncalls, npins>>

\* int id = b->blockno % NBUCKET
BrelseId(t) ==
  /\ At(t, "brelse_id")
  /\ Goto(t, [th[t] EXCEPT !.pc = "brelse_acquire",
                           !.id = Hash(buf[th[t].held].blockno)])
  /\ recent' = Alone(t)
  /\ UNCHANGED <<kvars, NBUF, NBUCKET, buf, head, lk, bcachelock, slk, ticks, pinned, ncalls, npins>>

\* acquire(&bucket[id].lock); b->refcnt--; if(b->refcnt == 0) b->time_stamp =
\* ticks; release(&bucket[id].lock).  The timer has advanced ticks by any
\* amount since it was last read
BrelseDec(t) ==
  LET b == th[t].held
      n == Dec32(buf[b].refcnt)
  IN /\ At(t, "brelse_acquire")
     /\ lk[th[t].id] = NOBODY
     /\ IF n = 0
        THEN \E v \in TickVals :
               /\ v >= ticks
               /\ ticks' = v
               /\ SetBuf(b, [buf[b] EXCEPT !.refcnt = n, !.time_stamp = v])
        ELSE /\ SetBuf(b, [buf[b] EXCEPT !.refcnt = n])
             /\ UNCHANGED ticks
     /\ Goto(t, InitThread)
     /\ recent' = [Alone(t) EXCEPT !.b = IF recent.t = t THEN b ELSE NULL]
     /\ UNCHANGED <<kvars, NBUF, NBUCKET, head, lk, bcachelock, slk, pinned, ncalls, npins>>

\* ---------------------------------------------------------------- kalloc.c
CPUs == 0..(NCPU - 1)
Pages == 1..NPages

\* a word all of whose bytes are c
Word(c) == c * 16843009

\* every byte of page p is c, the pages being pgs
AllBytesIn(pgs, p, c) == pgs[p].next = Word(c) /\ pgs[p].rest = c

AllBytes(p, c) == AllBytesIn(pg, p, c)

\* some CPU's free list is non-empty
SomeFree(fl) == \E i \in CPUs : fl[i] # NoPage

\* the pages on the list that starts at h, following at most n links
RECURSIVE ListFrom(_, _)
ListFrom(h, n) ==
  IF h \notin Pages \/ n = 0 THEN <<>> ELSE <<h>> \o ListFrom(pg[h].next, n - 1)

FreeList(i) == ListFrom(freelist[i], NPages + 1)

\* how many times page p is on the free lists
RECURSIVE OnLists(_, _)
OnLists(p, i) ==
  IF i = NCPU THEN 0
  ELSE Cardinality({k \in DOMAIN FreeList(i) : FreeList(i)[k] = p}) + OnLists(p, i + 1)

InitCpu == [pc |-> "idle", r |-> NoPage, i |-> 0, pa |-> NoPage]

\* the log is kept for the calls of a scenario: as many kalloc calls as there
\* are pages, one more, a kfree and a kalloc
MaxLog == NPages + 3

\* the log once a second CPU has run, or a call beyond MaxLog has returned
LogOff == [on |-> FALSE, cpu |-> NULL, ev |-> <<>>]

\* the log after a step of CPU c
StepBy(c) == IF log.on /\ log.cpu \in {NULL, c} THEN [log EXCEPT !.cpu = c] ELSE LogOff

\* the log after the step of CPU c in which a call returns: e is r or -pa
ReturnTo(c, e) ==
  IF StepBy(c).on /\ Len(log.ev) < MaxLog
  THEN [StepBy(c) EXCEPT !.ev = Append(@, e)]
  ELSE LogOff

\* the pages that kfree pushed, page r popped
Without(q, r) == SelectSeq(q, LAMBDA p : p # r)

\* kinit: freerange on CPU 0 has passed every page to kfree, lowest first
KallocInit ==
  /\ freelist = [i \in CPUs |-> IF i = 0 THEN NPages ELSE NoPage]
  /\ pg = [p \in Pages |-> [next |-> IF p = 1 THEN NoPage ELSE p - 1, rest |-> FreeFill]]
  /\ mlock = [i \in CPUs |-> NULL]
  /\ cpu = [c \in CPUs |-> InitCpu]
  /\ owned = [p \in Pages |-> 0]
  /\ avail = [c \in CPUs |-> FALSE]
  /\ pushed = [i \in CPUs |-> IF i = 0 THEN [k \in 1..NPages |-> k] ELSE <<>>]
  /\ log = [on |-> TRUE, cpu |-> NULL, ev |-> <<>>]

\* a memset left out
MemsetNot(p, c) == pg
\* memset(p, c, PGSIZE)
Memset(p, c) == [pg EXCEPT ![p] = [next |-> Word(c), rest |-> c]]

\* a pop that leaves the page on the list
UnlinkNot(i, r) == freelist
\* mem[i].freelist = r->next
Unlink(i, r) == [freelist EXCEPT ![i] = pg[r].next]

\* a push that leaves the head of the list as it was
LinkNot(c, pa) == freelist
\* mem[id].freelist = r
Link(c, pa) == [freelist EXCEPT ![c] = pa]

\* a release that leaves the lock held
ReleaseNot(i) == mlock
\* release(&mem[i].lock)
Release(i) == [mlock EXCEPT ![i] = NULL]

\* the next index of the stealing loop after i: for(...; i++) if(id == i) continue
NextPeer(c, i) == IF i + 1 = c THEN i + 2 ELSE i + 1

\* acquire(&mem[i].lock); r = mem[i].freelist; if(r) mem[i].freelist = r->next,
\* by CPU c; a call that saw some list non-empty so far sees whether one still is
PopFrom(c, i, pcnext) ==
  LET r == freelist[i]
      fl == IF r # NoPage THEN Unlink(i, r) ELSE freelist IN
  /\ mlock[i] = NULL
  /\ mlock' = [mlock EXCEPT ![i] = c]
  /\ freelist' = fl
  /\ cpu' = [cpu EXCEPT ![c].r = r, ![c].pc = pcnext]
  /\ avail' = [d \in CPUs |->
                 (IF d = c /\ pcnext = "release" THEN SomeFree(freelist) ELSE avail[d])
                 /\ SomeFree(fl)]
  /\ pushed' = [pushed EXCEPT ![i] = Without(@, r)]
  /\ log' = StepBy(c)
  /\ UNCHANGED <<pg, owned>>

\* kalloc: push_off, cpuid, and the local list
KallocPop(c) ==
  /\ cpu[c].pc = "idle"
  /\ PopFrom(c, c, "release")
  /\ UNCHANGED biovars

\* the local list was empty: release(&mem[id].lock); the loop starts
KallocRelease(c) ==
  /\ cpu[c].pc = "release"
  /\ cpu[c].r = NoPage
  /\ mlock' = Release(c)
  /\ cpu' = [cpu EXCEPT ![c].pc = "steal", ![c].i = NextPeer(c, -1)]
  /\ log' = StepBy(c)
  /\ UNCHANGED <<biovars, freelist, pg, owned, avail, pushed>>

\* the list of peer i
StealPop(c) ==
  /\ cpu[c].pc = "steal"
  /\ cpu[c].i < NCPU
  /\ PopFrom(c, cpu[c].i, "steal_release")
  /\ UNCHANGED biovars

\* the list of peer i was empty: release(&mem[i].lock); i++
StealRelease(c) ==
  /\ cpu[c].pc = "steal_release"
  /\ cpu[c].r = NoPage
  /\ mlock' = Release(cpu[c].i)
  /\ cpu' = [cpu EXCEPT ![c].pc = "steal", ![c].i = NextPeer(c, cpu[c].i)]
  /\ log' = StepBy(c)
  /\ UNCHANGED <<biovars, freelist, pg, owned, avail, pushed>>

\* a page was popped: release of the list's lock;
\* memset((char*)r, 5, PGSIZE); pop_off; return r
KallocReturn(c) ==
  /\ cpu[c].pc \in {"release", "steal_release"}
  /\ cpu[c].r # NoPage
  /\ mlock' = Release(IF cpu[c].pc = "release" THEN c ELSE cpu[c].i)
  /\ pg' = Memset(cpu[c].r, AllocFill)
  /\ owned' = [owned EXCEPT ![cpu[c].r] = owned[cpu[c].r] + 1]
  /\ cpu' = [cpu EXCEPT ![c] = InitCpu]
  /\ avail' = [avail EXCEPT ![c] = FALSE]
  /\ log' = ReturnTo(c, cpu[c].r)
  /\ UNCHANGED <<biovars, freelist, pushed>>

\* the loop is over: pop_off; return 0
KallocNone(c) ==
  /\ cpu[c].pc = "steal"
  /\ cpu[c].i >= NCPU
  /\ cpu' = [cpu EXCEPT ![c] = InitCpu]
  /\ avail' = [avail EXCEPT ![c] = FALSE]
  /\ log' = ReturnTo(c, NoPage)
  /\ UNCHANGED <<biovars, freelist, pg, mlock, owned, pushed>>

\* kfree(pa) of a page the caller owns: memset(pa, 1, PGSIZE); r = pa;
\* push_off, cpuid, acquire(&mem[id].lock);
\* r->next = mem[id].freelist; mem[id].freelist = r
KfreePush(c) ==
  /\ cpu[c].pc = "idle"
  /\ mlock[c] = NULL
  /\ \E pa \in Pages :
       /\ owned[pa] > 0
       /\ owned' = [owned EXCEPT ![pa] = owned[pa] - 1]
       /\ pg' = [Memset(pa, FreeFill) EXCEPT ![pa].next = freelist[c]]
       /\ freelist' = Link(c, pa)
       /\ pushed' = [pushed EXCEPT ![c] = Append(@, pa)]
       /\ cpu' = [cpu EXCEPT ![c].pc = "kfree_release", ![c].pa = pa]
  /\ mlock' = [mlock EXCEPT ![c] = c]
  /\ log' = StepBy(c)
  /\ UNCHANGED <<biovars, avail>>

\* release(&mem[id].lock); pop_off; return
KfreeRelease(c) ==
  /\ cpu[c].pc = "kfree_release"
  /\ mlock' = Release(c)
  /\ cpu' = [cpu EXCEPT ![c] = InitCpu]
  /\ log' = ReturnTo(c, -cpu[c].pa)
  /\ UNCHANGED <<biovars, freelist, pg, owned, avail, pushed>>

\* a step of CPU c
CpuNext(c) ==
    \/ KallocPop(c) \/ KallocRelease(c)
    \/ StealPop(c) \/ StealRelease(c)
    \/ KallocReturn(c) \/ KallocNone(c)
    \/ KfreePush(c) \/ KfreeRelease(c)

KallocNext == \E c \in CPUs : CpuNext(c)

\* -------------------------------------------------------------------- specs
\* the threads are idle, with their budgets of calls; the allocator after kinit
Init ==
  /\ BioInit
  /\ ticks = 0
  /\ ncalls = MaxCalls
  /\ npins = MaxPin
  /\ pinned = [k \in Devs \X Blocks |-> 0]
  /\ th = [t \in 1..NThreads |-> InitThread]
  /\ KallocInit

\* a step of thread t
ThreadNext(t) ==
    \/ BgetHit(t) \/ BgetMiss(t)
    \/ RecycleDev(t) \/ RecycleBlockno(t) \/ RecycleValid(t) \/ RecycleRefcnt(t)
    \/ PoolScan(t) \/ FindIdStep(t) \/ DonorMove(t) \/ DonorFault(t)
    \/ StealDev(t) \/ StealBlockno(t) \/ StealValid(t) \/ StealRefcnt(t)
    \/ AcquireSleep(t) \/ DiskRead(t) \/ SetValid(t)
    \/ Bpin(t) \/ BpinInc(t) \/ Bunpin(t) \/ BunpinDec(t)
    \/ Unpin(t) \/ UnpinDec(t)
    \/ Brelse(t) \/ BrelseId(t) \/ BrelseDec(t)

BioNext == \E t \in Threads : ThreadNext(t)

Next == BioNext
vars == <<biovars, kvars>>

\* the keys and the number of bread calls of the other configurations
CfgKeys == {Key(0, 1), Key(0, 2), Key(1, 1)}
CfgCalls == 3

\* other configurations: two buckets, and a pool of two, three or four
\* descriptors; block numbers beyond the bucket count
InitCfg ==
  /\ NBUCKET = 2
  /\ NBUF \in {2, 3, 4}
  /\ Binit
  /\ ticks = 0
  /\ ncalls = CfgCalls
  /\ npins = MaxPin
  /\ pinned = [k \in CfgKeys |-> 0]
  /\ th = [t \in 1..NThreads |-> InitThread]
  /\ KallocInit
\* the buffer cache in the other configurations
SpecCfg == InitCfg /\ [][Next]_vars
\* the buffer cache, the allocator at rest
Spec == Init /\ [][Next]_vars
\* the allocator, the buffer cache at rest
SpecKalloc == Init /\ [][KallocNext]_vars
\* the allocator, every CPU running: a CPU that can make a step makes one; a
\* CPU whose acquire finds the lock free again and again gets it
SpecKallocFair == Init /\ [][KallocNext]_vars /\ \A c \in CPUs : SF_vars(CpuNext(c))
\* the buffer cache, every thread running on a CPU of its own: a thread that
\* can make a step makes one; a thread whose acquire finds the lock free again
\* and again gets it
SpecFair == Init /\ [][Next]_vars /\ \A t \in 1..NThreads : SF_vars(ThreadNext(t))

\* ------------------------------------------------------------- properties

\* C1: cache key uniqueness: no two descriptors with nonzero reference count
\* have the same (dev, blockno).
KeyUnique ==
  \A a, b \in Bufs :
    (a # b /\ buf[a].refcnt # 0 /\ buf[b].refcnt # 0)
      => Key(buf[a].dev, buf[a].blockno) # Key(buf[b].dev, buf[b].blockno)

\* the holder of the spin lock that thread t is about to acquire (a bucket's
\* lock or bcache.lock), NOBODY if the lock is free or t is not at an acquire
HolderWanted(t) ==
  CASE th[t].pc \in {"bpin_acquire", "bunpin_acquire", "unpin_acquire",
                     "brelse_acquire"} -> lk[th[t].id]
    [] th[t].pc = "acquire_donor" /\ th[t].findid \in Buckets -> lk[th[t].findid]
    [] th[t].pc = "acquire_bcache" -> bcachelock
    [] OTHER -> NOBODY

\* C2: the spin locks never deadlock: there is no set of threads each of which
\* waits for a bucket lock or for bcache.lock held by another thread of the set.
NoLockCycle ==
  ~ \E S \in SUBSET Threads :
      /\ S # {}
      /\ \A t \in S : HolderWanted(t) \in S \ {t}

\* thread t makes a step of bget that repurposes its candidate ans: it moves
\* ans to another bucket, or stores into its dev, blockno, valid or refcnt
Repurposes(t) ==
  /\ th[t].pc \in {"recycle_dev", "recycle_blockno", "recycle_valid", "recycle_refcnt",
                   "acquire_donor", "steal_dev", "steal_blockno", "steal_valid",
                   "steal_refcnt"}
  /\ th'[t].pc \notin {th[t].pc, "fault"}

\* C3: eviction only of idle descriptors, and pin prevents eviction: every
\* step of bget that repurposes a descriptor finds its reference count 0.
EvictOnlyIdle ==
  [][\A t \in Threads : Repurposes(t) => buf[th[t].ans].refcnt = 0]_vars

\* thread t is between the return of bread for a descriptor and its brelse
Owns(t) ==
  th[t].pc \in {"disk_read", "set_valid", "holding", "bpin_acquire", "bunpin_acquire"}

\* C4: at most one owner: no two threads are at once between the return of
\* bget and brelse for the same descriptor, nor for the same (dev, blockno).
OneOwner ==
  \A t, u \in Threads :
    (t # u /\ Owns(t) /\ Owns(u))
      => /\ th[t].held # th[u].held
         /\ Key(th[t].dev, th[t].blockno) # Key(th[u].dev, th[u].blockno)

\* thread t returns from bread in this step
BreadReturns(t) == th[t].pc \in {"acquiresleep", "set_valid"} /\ th'[t].pc = "holding"

\* C7: read populates content: when bread(dev, blockno) returns b, b is valid,
\* its key is (dev, blockno) and its content is that of the block on the device.
ReadPopulates ==
  [][\A t \in Threads :
       BreadReturns(t) =>
         LET b == buf'[th'[t].held] IN
         /\ b.valid = 1
         /\ Key(b.dev, b.blockno) = Key(th[t].dev, th[t].blockno)
         /\ b.data = DiskContent(Key(th[t].dev, th[t].blockno))]_vars

\* C8: bget panics only when the pool is exhausted: at the panic every
\* descriptor has a nonzero reference count.
PanicOnlyExhausted ==
  [][\A t \in Threads :
       (th[t].pc # "panic" /\ th'[t].pc = "panic")
         => \A b \in Bufs : buf[b].refcnt # 0]_vars

\* the idle descriptors of the pool
Idle == {b \in Bufs : buf[b].refcnt = 0}

\* in this step the fallback path of thread t fails: bget panics, or faults
FallbackFails(t) ==
  /\ th[t].pc \in {"acquire_bcache", "pool_scan", "acquire_donor"}
  /\ th'[t].pc \in {"panic", "fault"}

\* C10: the global fallback succeeds: a bget that misses while every descriptor
\* of its bucket is in use and some other descriptor is idle does not fail; its
\* pool scan selects the idle descriptor of least time_stamp, and it returns
\* that descriptor off the donor chain, at the head of the requesting chain,
\* with the key (dev, blockno), valid = 0 and refcnt = 1.
FallbackSucceeds ==
  [][\A t \in Threads :
       (\A b \in Bufs : InChain(b, th[t].id) => buf[b].refcnt # 0) =>
         /\ FallbackFails(t) => Idle = {}
         /\ (th[t].pc = "pool_scan" /\ th'[t].pc = "find_id") =>
              /\ th'[t].ans \in Idle
              /\ \A b \in Idle : buf[th'[t].ans].time_stamp <= buf[b].time_stamp
         /\ (th[t].pc = "steal_refcnt" /\ th'[t].pc = "acquiresleep") =>
              LET a == th[t].ans IN
              /\ th'[t].b = a
              /\ head'[th[t].id] = a
              /\ \A i \in Buckets \ {th[t].id} : ~InChain(a, i)'
              /\ Key(buf'[a].dev, buf'[a].blockno) = Key(th[t].dev, th[t].blockno)
              /\ buf'[a].valid = 0
              /\ buf'[a].refcnt = 1]_vars

\* C5: allocator no-double-issue: callers freeing only pages they own, no page
\* is returned by kalloc while an earlier kalloc of it is outstanding, and no
\* page is on the free lists more than once.
NoDoubleIssue ==
  \A p \in Pages : owned[p] <= 1 /\ OnLists(p, 0) <= 1

\* two CPUs have each popped a page and are about to return it
TwoPopped ==
  \E c, d \in CPUs :
    /\ c # d
    /\ cpu[c].pc = "release" /\ cpu[d].pc = "steal_release"
    /\ cpu[c].r \in Pages /\ cpu[d].r \in Pages

\* in this step the kalloc call of CPU c returns 0
ReturnsNone(c) == cpu[c].pc = "steal" /\ cpu[c].i >= NCPU /\ cpu'[c].pc = "idle"

\* C6: kalloc returns 0 only if no free page exists anywhere, other CPUs
\* running kalloc and kfree during its scan: a call during which some free list
\* was non-empty at every instant returns a page.
NoneOnlyWhenEmpty ==
  [][\A c \in CPUs : ReturnsNone(c) => ~avail[c]]_vars

\* in this step kalloc returns page cpu[c].r to its caller on CPU c
KallocReturns(c) ==
  cpu[c].pc \in {"release", "steal_release"} /\ cpu[c].r # NoPage /\ cpu'[c].pc = "idle"

\* in this step kfree(cpu[c].pa) returns to its caller on CPU c
KfreeReturns(c) == cpu[c].pc = "kfree_release" /\ cpu'[c].pc = "idle"

HitAfterRelease ==
  [][\A t \in Threads :
       (/\ recent.t = t /\ recent.b # NULL
        /\ recent' = recent
        /\ \/ th[t].pc = "idle" /\ ncalls' # ncalls
           \/ th[t].pc = "acquiresleep" /\ th'[t].pc # th[t].pc) =>
         /\ th[t].pc = "idle" =>
              /\ th'[t].pc = "acquiresleep"
              /\ th'[t].b = recent.b
         /\ th[t].pc = "acquiresleep" =>
              /\ th'[t].pc = "holding"
              /\ th'[t].held = recent.b
         /\ buf'[recent.b].valid = 1
         /\ buf'[recent.b].data = buf[recent.b].data
         /\ Key(buf'[recent.b].dev, buf'[recent.b].blockno) = Key(recent.dev, recent.blockno)]_vars

\* the second bread has returned the descriptor that the brelse released
HitReturned ==
  /\ recent.t \in Threads /\ recent.b # NULL
  /\ th[recent.t].pc = "holding"
  /\ th[recent.t].held = recent.b
\* the last page of q, the pages of a free list in the order they were pushed
Top(q) == IF q = <<>> THEN NoPage ELSE q[Len(q)]

\* the pages of the one free list in use after the calls e[1] .. e[k] of one
\* CPU, if each kfree pushes and each kalloc pops the page pushed last;
\* freerange has pushed the pages lowest first
RECURSIVE StackAfter(_, _)
StackAfter(e, k) ==
  IF k = 0 THEN [j \in 1..NPages |-> j]
  ELSE LET q == StackAfter(e, k - 1) IN
       IF e[k] < 0 THEN Append(q, -e[k])
       ELSE IF q = <<>> THEN q ELSE SubSeq(q, 1, Len(q) - 1)

\* the calls e are those of the scenario: as many kalloc calls as freerange
\* freed pages, one more kalloc, kfree of the page returned first, a kalloc
IsScenario(e) ==
  /\ Len(e) = NPages + 3
  /\ \A k \in 1..(NPages + 1) : e[k] >= 0
  /\ e[NPages + 2] < 0 /\ e[NPages + 2] = -e[1]
  /\ e[NPages + 3] >= 0

\* C12: the single-CPU scenario and LIFO reuse: after freerange over NPages
\* (two) pages, one CPU running alone, the first NPages kalloc calls return
\* distinct pages, the next returns 0, and after kfree of the page returned
\* first the next kalloc returns that page; every kalloc of such a run returns
\* the page pushed last and not yet popped; and on any CPU, other CPUs
\* running, a kalloc that finds its own list non-empty pops from it the page
\* that was pushed onto it last.
LifoReuse ==
  [][LET e == log'.ev IN
     /\ \A k \in 1..Len(e) : e[k] >= 0 => e[k] = Top(StackAfter(e, k - 1))
     /\ IsScenario(e) =>
          /\ \A k \in 1..NPages :
               e[k] \in Pages /\ \A j \in 1..(k - 1) : e[j] # e[k]
          /\ e[NPages + 1] = NoPage
          /\ e[NPages + 3] = e[1]
     /\ \A c \in CPUs :
          (cpu[c].pc = "idle" /\ cpu'[c].pc = "release" /\ pushed[c] # <<>>)
            => cpu'[c].r = Top(pushed[c])]_vars

\* the calls of the scenario have returned to a CPU that ran alone
ScenarioDone == log.on /\ IsScenario(log.ev)
\* thread t has obtained descriptor b from bget and its brelse has not yet
\* decremented the count: it waits for b's sleep lock, holds it, or is in brelse
Obtained(t, b) ==
  \/ th[t].pc = "acquiresleep" /\ th[t].b = b
  \/ /\ th[t].pc \in {"disk_read", "set_valid", "holding", "bpin_acquire",
                      "bunpin_acquire", "brelse_id", "brelse_acquire"}
     /\ th[t].held = b

\* the bpin calls on descriptor b that have incremented its count and that no
\* bunpin has matched by a decrement
PinsOn(b) ==
  LET k == Key(buf[b].dev, buf[b].blockno) IN
  (IF k \in Keys THEN pinned[k] ELSE 0)
    - Cardinality({t \in Threads : th[t].pc = "bpin_acquire" /\ th[t].held = b})
    + Cardinality({t \in Threads : th[t].pc = "bunpin_acquire" /\ th[t].held = b})
    + Cardinality({t \in Threads : th[t].pc = "unpin_acquire" /\ th[t].b = b})

\* some thread is inside a bucket lock's critical section for descriptor b: it
\* holds the lock of the bucket b is on or hashes to, or it is in the part of
\* bget that rewrites b
InCritical(b) ==
  \/ \E i \in Buckets : lk[i] # NOBODY /\ (InChain(b, i) \/ Hash(buf[b].blockno) = i)
  \/ \E t \in Threads :
       /\ th[t].ans = b
       /\ th[t].pc \in {"recycle_dev", "recycle_blockno", "recycle_valid", "recycle_refcnt",
                        "steal_dev", "steal_blockno", "steal_valid", "steal_refcnt"}

\* C13: reference-count accounting: whenever no thread is inside a bucket
\* lock's critical section for a descriptor, its refcnt is the number of
\* threads that have obtained it from bget and not yet released it plus the
\* number of bpin calls not matched by bunpin; the count of a held descriptor
\* is not 0, and the count never wraps below 0.
RefcntAccounts ==
  /\ \A b \in Bufs :
       ~InCritical(b) =>
         buf[b].refcnt = Cardinality({t \in Threads : Obtained(t, b)}) + PinsOn(b)
  /\ \A t \in Threads : Owns(t) => buf[th[t].held].refcnt # 0
  /\ \A b \in Bufs : buf[b].refcnt # UINT32_MAX
\* thread t has unlinked descriptor b from its donor chain and spliced it onto
\* the requesting chain, has released the donor lock and bcache.lock, and has
\* not yet stored all of dev, blockno, valid and refcnt
HalfMigrated(t, b) ==
  /\ th[t].ans = b
  /\ th[t].pc \in {"steal_dev", "steal_blockno", "steal_valid", "steal_refcnt"}

\* in this step thread u observes descriptor b: its chain lookup finds b, or
\* one of its eviction scans selects b
Observes(u, b) ==
  \/ th[u].pc = "idle" /\ th'[u].pc = "acquiresleep" /\ th'[u].b = b
  \/ th[u].pc = "idle" /\ th'[u].pc = "recycle_dev" /\ th'[u].ans = b
  \/ /\ th[u].pc \in {"acquire_bcache", "pool_scan"}
     /\ th[u].ans # b /\ th'[u].ans = b

\* C14: no half-migrated descriptor is observed: while a thread is between
\* the splice of a descriptor onto its chain and the last store of the new
\* dev, blockno, valid and refcnt, no other thread's chain lookup finds the
\* descriptor and no other thread's pool scan selects it.
NoHalfMigrated ==
  [][\A t, u \in Threads : \A b \in Bufs :
       (t # u /\ HalfMigrated(t, b)) => ~Observes(u, b)]_vars
\* every descriptor on the chain of a bucket whose lock is free has a block
\* number that hashes to that bucket
ChainsHashed ==
  \A k \in Buckets :
    lk[k] = NOBODY => \A b \in Bufs : InChain(b, k) => Hash(buf[b].blockno) = k

\* thread u is inside bget, past the hit loop
InBget(u) ==
  th[u].pc \in {"recycle_dev", "recycle_blockno", "recycle_valid", "recycle_refcnt",
               "acquire_bcache", "pool_scan", "find_id", "acquire_donor",
               "steal_dev", "steal_blockno", "steal_valid", "steal_refcnt",
               "fault", "panic"}

\* C15: the donor lookup is sound for every bucket count and pool size whose
\* descriptors are all on chains: when the fallback path of a thread, no other
\* thread inside bget, has selected a descriptor, which is still idle, and
\* computed its donor bucket, the index is an index of bucket[] other than the requesting
\* bucket's and the descriptor is on that bucket's chain; the walk for its
\* predecessor does not run past the end of the chain; and every descriptor on
\* bucket k's chain has blockno mod NBUCKET = k.
DonorSound ==
  [][(NBUF % NBUCKET = 0) =>
       /\ \A t \in Threads :
            (\A u \in Threads \ {t} : ~InBget(u)) =>
              /\ (/\ th[t].pc = "find_id" /\ th'[t].pc = "acquire_donor"
                  /\ buf[th[t].ans].refcnt = 0) =>
                   /\ th'[t].findid \in Buckets
                   /\ th'[t].findid # th[t].id
                   /\ InChain(th[t].ans, th'[t].findid)
              /\ ~(th[t].pc = "acquire_donor" /\ th'[t].pc = "fault")
       /\ (\A u \in Threads : ~InBget(u)) => ChainsHashed]_vars
\* how many times descriptor b is on the chains of the buckets i, i + 1, ...
RECURSIVE OnChains(_, _)
OnChains(b, i) ==
  IF i >= NBUCKET THEN 0
  ELSE Cardinality({k \in DOMAIN Chain(i) : Chain(i)[k] = b}) + OnChains(b, i + 1)

\* C16: pool membership: for every NBUF and NBUCKET, after binit and after
\* every later operation, each of the NBUF descriptors (each one the pool scan
\* visits) is on exactly one bucket's chain, exactly once.
OnOneChain == \A b \in Bufs : OnChains(b, 0) = 1
\* in this step the reference count of descriptor b goes from nonzero to 0
LastRelease(b) == buf[b].refcnt # 0 /\ buf'[b].refcnt = 0

\* C17: the recency stamp: a step that takes a descriptor's refcnt from
\* nonzero to 0, in brelse or in bunpin, leaves its time_stamp equal to the
\* tick counter, and no other step changes a time_stamp; so whenever refcnt is
\* 0, time_stamp is the tick value of the last transition to 0.
StampAtLastRelease ==
  [][\A b \in Bufs :
       /\ LastRelease(b) => buf'[b].time_stamp = ticks'
       /\ buf'[b].time_stamp # buf[b].time_stamp => LastRelease(b)]_vars
\* the descriptors of chain c that an eviction scan can take: refcnt 0 and a
\* time_stamp below the scan's initial nowmin
Eligible(c) ==
  {k \in DOMAIN c : buf[c[k]].refcnt = 0 /\ buf[c[k]].time_stamp < UINT32_MAX}

\* thread t is in the part of bget that recycles a descriptor of its own bucket
Recycling(t) ==
  th[t].pc \in {"recycle_dev", "recycle_blockno", "recycle_valid", "recycle_refcnt"}

\* C18: the frame of the intra-bucket recycle: a bget that misses while its
\* bucket's chain has a descriptor with refcnt 0 and a time_stamp below
\* UINT32_MAX repurposes, of those descriptors, the one of least time_stamp,
\* the first in chain order among equals; it takes neither bcache.lock nor
\* another bucket's lock, and until it returns the descriptor its steps leave
\* every other descriptor and every chain as they are.
RecycleFrame ==
  [][\A t \in Threads :
       /\ (th[t].pc = "idle" /\ th'[t].pc \in {"recycle_dev", "acquire_bcache"}) =>
            LET c == Chain(th'[t].id) IN
            Eligible(c) # {} =>
              /\ th'[t].pc = "recycle_dev"
              /\ \E k \in Eligible(c) :
                   /\ th'[t].ans = c[k]
                   /\ \A j \in Eligible(c) :
                        \/ buf[c[k]].time_stamp < buf[c[j]].time_stamp
                        \/ buf[c[k]].time_stamp = buf[c[j]].time_stamp /\ k <= j
       /\ ((th[t].pc = "idle" /\ th'[t].pc = "recycle_dev")
           \/ (Recycling(t) /\ th'[t].pc # th[t].pc)) =>
            /\ bcachelock' = bcachelock
            /\ \A i \in Buckets \ {th'[t].id} : lk'[i] = lk[i]
            /\ head' = head
            /\ \A b \in Bufs \ {th'[t].ans} : buf'[b] = buf[b]
            /\ buf'[th'[t].ans].next = buf[th'[t].ans].next
            /\ Recycling(t) => th'[t].ans = th[t].ans
       /\ (th[t].pc = "recycle_refcnt" /\ th'[t].pc # th[t].pc) =>
            th'[t].pc = "acquiresleep" /\ th'[t].b = th[t].ans]_vars

\* a recycle has chosen between two descriptors of its chain that have
\* refcnt 0 and the same time_stamp
RecycleTie ==
  \E t \in Threads :
    /\ th[t].pc = "recycle_dev"
    /\ \E b \in Bufs \ {th[t].ans} :
         /\ InChain(b, th[t].id)
         /\ buf[b].refcnt = 0
         /\ buf[b].time_stamp = buf[th[t].ans].time_stamp
\* thread t has returned from bget with a descriptor
Returned(t) == th[t].pc \in {"disk_read", "set_valid", "holding"}

\* some thread has stopped in bget: panic("bget: no buffers"), or the trap of
\* the donor walk
Stopped == \E u \in Threads : th[u].pc \in {"panic", "fault"}

\* C19: bget makes progress: every thread scheduled fairly and every holder
\* calling brelse, a thread that is inside bget, waiting for a spin lock or for
\* the descriptor's sleep lock included, eventually returns from it with the
\* descriptor, unless bget has stopped a thread by a panic or a trap.
BgetReturns ==
  \A t \in 1..NThreads :
    (InBget(t) \/ th[t].pc = "acquiresleep") ~> (Returned(t) \/ Stopped)
\* the per-CPU locks that CPU c holds
HeldBy(c) == {i \in CPUs : mlock[i] = c}

\* the CPU that holds the lock CPU c is about to acquire in its stealing loop
\* (NULL: the lock is free, or c is not at the loop's acquire)
PeerHolder(c) ==
  IF cpu[c].pc = "steal" /\ cpu[c].i < NCPU THEN mlock[cpu[c].i] ELSE NULL

====
